---- MODULE Spec2Model ----
(***************************************************************************)
(* A model of the Loader of src/index.js: a directory scan (when) feeds a  *)
(* Discovered File List, withExtraArgument accumulates extra arguments,    *)
(* into(server) loads and normalises every discovered module and registers *)
(* one 'connection' listener, and a connection event fans out to the       *)
(* handlers of every registered listener.                                  *)
(*                                                                         *)
(* Strings that the code inspects character by character (entry names) are *)
(* sequences of one-character strings.                                     *)
(***************************************************************************)
EXTENDS Integers, Sequences, FiniteSets, TLC

VARIABLES
    options,         \* this.options (verbose, extensions)
    routes,          \* the entries of the directory routes below options.cwd
    files,           \* this.files
    extraArguments,  \* this.extraArguments
    listeners,       \* the server's 'connection' listeners, in registration order
    instances,       \* every object created by `new` in into, with its state
    raised,          \* what the last operation threw (NoError when it returned)
    logged,          \* the logger calls of the last operation
    calls,           \* the handler invocations of the last connection event
    last,            \* the last operation and its input
    steps            \* operations performed so far

vars == <<options, routes, files, extraArguments, listeners, instances, raised,
          logged, calls, last, steps>>

----------------------------------------------------------------------------
(* Bounds of the model *)

\* operations performed in one run
MaxOps == 5
\* entries of a directory listing drawn in ScanInit
MaxListing == 2

----------------------------------------------------------------------------
(* Entry names *)

a_js    == <<"a", ".", "j", "s">>
k_js    == <<"k", ".", "j", "s">>
n_js    == <<"n", ".", "j", "s">>
m_js    == <<"m", ".", "j", "s">>
x_js    == <<"x", ".", "j", "s">>
v_js    == <<"v", ".", "j", "s">>
e_mjs   == <<"e", ".", "m", "j", "s">>
h_js    == <<".", "h", ".", "j", "s">>
dot_js  == <<".", "j", "s">>
r_txt   == <<"r", ".", "t", "x", "t">>
a_d_js  == <<"a", ".", "d", ".", "j", "s">>
js      == <<"j", "s">>
readme  == <<"r">>
z_dot   == <<"z", ".">>
dots    == <<".", ".", ".">>

\* the names a listing of ScanInit is drawn from
Names == {a_js, e_mjs, h_js, dot_js, r_txt, a_d_js, readme, z_dot, dots}

\* options.extensions as set by the constructor
DefaultExtensions == << <<"j", "s">>, <<"m", "j", "s">> >>

----------------------------------------------------------------------------
(* Errors *)

NoFile == <<>>

NoError == [kind |-> "none", file |-> NoFile]

\* new Error(`Failed to require ${file} because: ...`)
LoadError(file) == [kind |-> "FailedToRequire", file |-> file]

\* new Error('module requires an function'): the message names no file
NotFunctionError == [kind |-> "ModuleRequiresFunction", file |-> NoFile]

\* a TypeError of the runtime (destructuring null, calling a class without new)
TypeError == [kind |-> "TypeError", file |-> NoFile]

\* what a handler of the user throws
HandlerError == [kind |-> "HandlerError", file |-> NoFile]

----------------------------------------------------------------------------
(* Loader.log *)

\* a variant of Log that calls the logger whatever options.verbose is
LogAlways(verbose, type, message) == << [type |-> type, message |-> message] >>

\* the logger calls `log(message, type)` makes: none unless options.verbose
Log(verbose, type, message) ==
    IF verbose THEN << [type |-> type, message |-> message] >> ELSE <<>>

----------------------------------------------------------------------------
(* Loader.when *)

RECURSIVE SuffixStart(_, _)
\* the position where the longest dot-free suffix of name[1..i] starts
SuffixStart(name, i) ==
    IF i = 0 \/ name[i] = "." THEN i + 1 ELSE SuffixStart(name, i - 1)

\* /[^.]+$/.exec(filename): the match, or <<>> for null (no dot-free suffix)
ExecExtension(name) ==
    SubSeq(name, SuffixStart(name, Len(name)), Len(name))

\* this.options.extensions.includes(extension)
Includes(seq, x) == \E i \in 1..Len(seq) : seq[i] = x

\* path.join(location, filename), location = path.join(cwd, dirname)
Join(dirname, filename) == [dir |-> dirname, name |-> filename]

RECURSIVE ScanEntriesOnce(_, _, _, _, _)
\* a variant of ScanEntries that skips a path the list already holds
ScanEntriesOnce(opts, dirname, listing, i, acc) ==
    IF i > Len(listing) THEN acc
    ELSE LET filename  == listing[i]
             extension == ExecExtension(filename)
             known     == \E k \in 1..Len(acc.files) :
                              acc.files[k] = Join(dirname, filename)
         IN  IF extension = <<>>
             THEN [acc EXCEPT !.raised = TypeError]
             ELSE IF \/ ~Includes(opts.extensions, extension)
                     \/ filename[1] = "."
                     \/ known
             THEN ScanEntriesOnce(opts, dirname, listing, i + 1, acc)
             ELSE ScanEntriesOnce(opts, dirname, listing, i + 1,
                      [acc EXCEPT !.files = Append(@, Join(dirname, filename))])

RECURSIVE ScanEntries(_, _, _, _, _)
\* the for loop of when over fs.readdirSync(location), from entry i on;
\* acc = [files, logged, raised]
ScanEntries(opts, dirname, listing, i, acc) ==
    IF i > Len(listing) THEN acc
    ELSE LET filename  == listing[i]
             extension == ExecExtension(filename)
         IN  IF extension = <<>>
             THEN \* const [extension] = null
                  [acc EXCEPT !.raised = TypeError]
             ELSE IF ~Includes(opts.extensions, extension)
             THEN ScanEntries(opts, dirname, listing, i + 1,
                      [acc EXCEPT !.logged = @ \o
                          Log(opts.verbose, "info", <<"Ignoring extension", extension>>)])
             ELSE IF filename[1] = "."
             THEN ScanEntries(opts, dirname, listing, i + 1,
                      [acc EXCEPT !.logged = @ \o
                          Log(opts.verbose, "info", <<"Ignoring hidden entity", filename>>)])
             ELSE ScanEntries(opts, dirname, listing, i + 1,
                      [acc EXCEPT !.files = Append(@, Join(dirname, filename))])

\* a variant of WhenResult that throws where the location is no directory
WhenResultStrict(opts, fsys, fileList, dirname) ==
    LET entry == fsys[dirname]
        start == [files |-> fileList, logged |-> <<>>, raised |-> NoError]
    IN  IF entry.kind # "dir"
        THEN [start EXCEPT !.raised = LoadError(Join(dirname, <<>>))]
        ELSE ScanEntries(opts, dirname, entry.listing, 1, start)

\* when(dirname) as a function of the loader and the filesystem
WhenResult(opts, fsys, fileList, dirname) ==
    LET entry == fsys[dirname]
        start == [files |-> fileList, logged |-> <<>>, raised |-> NoError]
    IN  IF entry.kind = "missing"
        THEN [start EXCEPT !.logged =
                 Log(opts.verbose, "error", <<"Entity not found", dirname>>)]
        ELSE IF entry.kind # "dir"
        THEN [start EXCEPT !.logged =
                 Log(opts.verbose, "error", <<"not is an folder", dirname>>)]
        ELSE ScanEntries(opts, dirname, entry.listing, 1, start)

----------------------------------------------------------------------------
(* Loader.withExtraArgument *)

\* a variant of Concat that puts the new arguments first
ConcatInFront(list, extraArgument) == extraArgument \o list

\* this.extraArguments.concat(extraArgument)
Concat(list, extraArgument) == list \o extraArgument

----------------------------------------------------------------------------
(* The values a module exports *)

\* typeof: what `typeof` answers; text: the tokens i.toString() starts with;
\* body: what calling the value does; conn: whether 'connection' is in an
\* instance; inst: the instance a bound method is bound to (0: none)
PlainFunction(name) ==
    [typeof |-> "function", text |-> <<"function", " ", name>>,
     body |-> "plain", name |-> name, conn |-> FALSE, inst |-> 0]

\* class K { ... }
ClassExport(name, conn) ==
    [typeof |-> "function", text |-> <<"class", " ", name, "{">>,
     body |-> "class", name |-> name, conn |-> conn, inst |-> 0]

\* class{ ... }: an anonymous class written without a blank after `class`
CompactClassExport(name, conn) ==
    [typeof |-> "function", text |-> <<"class", "{">>,
     body |-> "class", name |-> name, conn |-> conn, inst |-> 0]

\* an export that is not callable
DataExport(name) ==
    [typeof |-> "object", text |-> <<"[object Object]">>,
     body |-> "data", name |-> name, conn |-> FALSE, inst |-> 0]

\* instance.connection.bind(instance)
BoundConnection(cls, id) ==
    [typeof |-> "function", text |-> <<"function", " ", "(", ")">>,
     body |-> "bound", name |-> cls.name, conn |-> cls.conn, inst |-> id]

\* require(file) then Object.keys(T).map(e => T[e]): the exported values in
\* enumeration order, or a failure to load
ModuleOf(name) ==
    CASE name = a_js  -> [loads |-> TRUE, exports |-> <<PlainFunction("a"), PlainFunction("b")>>]
      [] name = k_js  -> [loads |-> TRUE, exports |-> <<ClassExport("K", TRUE)>>]
      [] name = n_js  -> [loads |-> TRUE, exports |-> <<ClassExport("N", FALSE)>>]
      [] name = m_js  -> [loads |-> TRUE, exports |-> <<PlainFunction("g"), ClassExport("M", TRUE)>>]
      [] name = v_js  -> [loads |-> TRUE, exports |-> <<PlainFunction("f"), DataExport("v")>>]
      [] name = e_mjs -> [loads |-> TRUE, exports |-> <<CompactClassExport("E", TRUE)>>]
      [] name = js    -> [loads |-> TRUE, exports |-> <<>>]
      [] OTHER        -> [loads |-> FALSE, exports |-> <<>>]

\* the user functions whose call may throw
MayThrow == {"b"}

----------------------------------------------------------------------------
(* Loader.into *)

RECURSIVE SkipBlanks(_, _)
\* the first position from i on that holds no blank (\s*)
SkipBlanks(text, i) ==
    IF i <= Len(text) /\ text[i] = " " THEN SkipBlanks(text, i + 1) ELSE i

\* /^\s*class\s+/.test(i.toString())
ClassShaped(text) ==
    LET i == SkipBlanks(text, 1)
    IN  /\ i + 1 <= Len(text)
        /\ text[i] = "class"
        /\ text[i + 1] = " "

\* mod.indexOf(i): the first position holding a value identical to x
IndexOf(mod, x) ==
    CHOOSE j \in 1..Len(mod) :
        /\ mod[j] = x
        /\ \A h \in 1..(j - 1) : mod[h] # x

\* a variant of Collected that puts the new values first
CollectedInFront(fns, mod) == mod \o fns

\* the value each export loop iteration appends to fns: fns.concat(mod)
Collected(fns, mod) == fns \o mod

RECURSIVE ExportLoopSkipping(_, _, _, _, _)
\* a variant of ExportLoop that skips an export that is not callable
ExportLoopSkipping(opts, file, mod, i, acc) ==
    IF i > Len(mod) THEN acc
    ELSE IF mod[i].typeof # "function"
    THEN ExportLoopSkipping(opts, file, mod, i + 1, acc)
    ELSE ExportLoopSkipping(opts, file, mod, i + 1,
             [acc EXCEPT !.fns = Collected(@, mod)])

RECURSIVE ExportLoop(_, _, _, _, _)
\* `for (const i of mod)` from position i on; mod is read live, as the array
\* iterator does; acc = [fns, instances, logged, raised]
ExportLoop(opts, file, mod, i, acc) ==
    IF i > Len(mod) THEN acc
    ELSE LET e == mod[i]
             loaded == Log(opts.verbose, "info", <<"loaded", file.name>>)
         IN  IF e.typeof # "function"
             THEN [acc EXCEPT !.raised = NotFunctionError]
             ELSE IF ClassShaped(e.text)
             THEN LET j    == IndexOf(mod, e)
                      id   == Len(acc.instances) + 1
                      made == Append(acc.instances, [cls |-> mod[j].name, state |-> 0])
                      mod2 == IF mod[j].conn
                              THEN [mod EXCEPT ![j] = BoundConnection(mod[j], id)]
                              ELSE mod
                      err  == IF mod[j].conn THEN <<>>
                              ELSE Log(opts.verbose, "error", <<"cannot load route">>)
                  IN  ExportLoop(opts, file, mod2, i + 1,
                          [acc EXCEPT !.fns = Collected(@, mod2),
                                      !.instances = made,
                                      !.logged = @ \o err \o loaded])
             ELSE ExportLoop(opts, file, mod, i + 1,
                      [acc EXCEPT !.fns = Collected(@, mod),
                                  !.logged = @ \o loaded])

RECURSIVE FileLoopSkipping(_, _, _, _)
\* a variant of FileLoop that skips a file that fails to load
FileLoopSkipping(opts, fileList, k, acc) ==
    IF k > Len(fileList) THEN acc
    ELSE LET file == fileList[k]
             T    == ModuleOf(file.name)
         IN  IF ~T.loads
             THEN FileLoopSkipping(opts, fileList, k + 1, acc)
             ELSE LET r == ExportLoop(opts, file, T.exports, 1, acc)
                  IN  IF r.raised # NoError THEN r
                      ELSE FileLoopSkipping(opts, fileList, k + 1, r)

RECURSIVE FileLoop(_, _, _, _)
\* `for (const file of this.files)` from position k on
FileLoop(opts, fileList, k, acc) ==
    IF k > Len(fileList) THEN acc
    ELSE LET file == fileList[k]
             T    == ModuleOf(file.name)
         IN  IF ~T.loads
             THEN [acc EXCEPT !.raised = LoadError(file)]
             ELSE LET r == ExportLoop(opts, file, T.exports, 1, acc)
                  IN  IF r.raised # NoError THEN r
                      ELSE FileLoop(opts, fileList, k + 1, r)

\* the body of into up to server.on: the handler list, the instances made,
\* the logger calls and the error thrown, if any
IntoResult(opts, fileList, insts) ==
    FileLoop(opts, fileList, 1,
        [fns |-> <<>>, instances |-> insts, logged |-> <<>>, raised |-> NoError])

\* a variant of Register that keeps one listener per server
RegisterOnce(ls, fns) == << [fns |-> fns] >>

\* server.on('connection', listener): the listener closes over fns
Register(ls, fns) == Append(ls, [fns |-> fns])

----------------------------------------------------------------------------
(* A connection event *)

\* a variant of Arguments that passes server and socket only
ArgumentsBare(extra) == <<"server", "socket">>

\* fn(server, socket, ...this.extraArguments)
Arguments(extra) == <<"server", "socket">> \o extra

\* one call fn(...): acc = [calls, instances, raised]
Invoke(l, k, fn, args, throwers, acc) ==
    LET call == [listener |-> l, pos |-> k, fn |-> fn, args |-> args,
                 seen |-> 0, threw |-> FALSE]
    IN  CASE fn.body = "bound" ->
               \* the connection method runs on its instance and updates it
               [acc EXCEPT !.calls = Append(@, [call EXCEPT
                                        !.seen = acc.instances[fn.inst].state]),
                           !.instances[fn.inst].state = @ + 1]
          [] fn.body = "plain" /\ fn.name \notin throwers ->
               [acc EXCEPT !.calls = Append(@, call)]
          [] fn.body = "plain" /\ fn.name \in throwers ->
               [acc EXCEPT !.calls = Append(@, [call EXCEPT !.threw = TRUE]),
                           !.raised = HandlerError]
          [] OTHER ->
               \* a class constructor called without new
               [acc EXCEPT !.calls = Append(@, [call EXCEPT !.threw = TRUE]),
                           !.raised = TypeError]

RECURSIVE ListenerIsolating(_, _, _, _, _, _)
\* a variant of Listener that catches what a handler throws and goes on
ListenerIsolating(l, fns, k, args, throwers, acc) ==
    IF k > Len(fns) THEN acc
    ELSE LET r == Invoke(l, k, fns[k], args, throwers, acc)
         IN  ListenerIsolating(l, fns, k + 1, args, throwers,
                 [r EXCEPT !.raised = NoError])

RECURSIVE Listener(_, _, _, _, _, _)
\* `for (const fn of fns)` of listener l from position k on: nothing is caught
Listener(l, fns, k, args, throwers, acc) ==
    IF k > Len(fns) THEN acc
    ELSE LET r == Invoke(l, k, fns[k], args, throwers, acc)
         IN  IF r.raised # NoError THEN r
             ELSE Listener(l, fns, k + 1, args, throwers, r)

RECURSIVE Emit(_, _, _, _, _)
\* the server calls its 'connection' listeners in registration order; what a
\* listener throws propagates out of the emission
Emit(ls, l, args, throwers, acc) ==
    IF l > Len(ls) THEN acc
    ELSE LET r == Listener(l, ls[l].fns, 1, args, throwers, acc)
         IN  IF r.raised # NoError THEN r
             ELSE Emit(ls, l + 1, args, throwers, r)

----------------------------------------------------------------------------
(* The filesystem of the main specification *)

Dirnames == {"routes", "stateful", "mixed", "plain", "compact", "broken",
             "loose", "odd", "missing", "index.js"}

Dir(listing) == [kind |-> "dir", listing |-> listing]

\* the filesystem below options.cwd, dirname -> what is there, given the
\* entries of routes
Tree(entries) ==
    [d \in Dirnames |->
        CASE d = "routes"   -> Dir(entries)
          [] d = "stateful" -> Dir(<<k_js>>)
          [] d = "mixed"    -> Dir(<<m_js>>)
          [] d = "plain"    -> Dir(<<n_js>>)
          [] d = "compact"  -> Dir(<<e_mjs>>)
          [] d = "broken"   -> Dir(<<x_js>>)
          [] d = "loose"    -> Dir(<<v_js>>)
          [] d = "odd"      -> Dir(<<js, z_dot, a_js>>)
          [] d = "index.js" -> [kind |-> "file", listing |-> <<>>]
          [] OTHER          -> [kind |-> "missing", listing |-> <<>>]]

\* the argument lists withExtraArgument is called with
ArgumentLists == {<<1, 2>>, <<3>>}

----------------------------------------------------------------------------
(* The operations *)

\* the state after `new Loader(options)`, before any call
Constructed ==
    /\ options \in [verbose : BOOLEAN, extensions : {DefaultExtensions}]
    /\ files = <<>>
    /\ extraArguments = <<>>
    /\ listeners = <<>>
    /\ instances = <<>>
    /\ raised = NoError
    /\ logged = <<>>
    /\ calls = <<>>
    /\ last = [op |-> "new", arg |-> <<>>]
    /\ steps = 0

Init ==
    /\ routes = <<a_js, h_js, r_txt>>
    /\ Constructed

\* a variant of When after which the registered listeners also hold the
\* exports of the files the scan added
WhenRebinding(dirname) ==
    /\ steps < MaxOps
    /\ LET r == WhenResult(options, Tree(routes), files, dirname)
           added == IntoResult(options,
                               SubSeq(r.files, Len(files) + 1, Len(r.files)),
                               <<>>)
       IN  /\ files' = r.files
           /\ logged' = r.logged
           /\ raised' = r.raised
           /\ listeners' = [l \in 1..Len(listeners) |->
                                [fns |-> listeners[l].fns \o added.fns]]
    /\ calls' = <<>>
    /\ last' = [op |-> "when", arg |-> dirname]
    /\ steps' = steps + 1
    /\ UNCHANGED <<options, routes, extraArguments, instances>>

When(dirname) ==
    /\ steps < MaxOps
    /\ LET r == WhenResult(options, Tree(routes), files, dirname)
       IN  /\ files' = r.files
           /\ logged' = r.logged
           /\ raised' = r.raised
    /\ calls' = <<>>
    /\ last' = [op |-> "when", arg |-> dirname]
    /\ steps' = steps + 1
    /\ UNCHANGED <<options, routes, extraArguments, listeners, instances>>

WithExtraArgument(extraArgument) ==
    /\ steps < MaxOps
    /\ extraArguments' = Concat(extraArguments, extraArgument)
    /\ raised' = NoError
    /\ logged' = <<>>
    /\ calls' = <<>>
    /\ last' = [op |-> "withExtraArgument", arg |-> extraArgument]
    /\ steps' = steps + 1
    /\ UNCHANGED <<options, routes, files, listeners, instances>>

\* a variant of Into that drops from the list the file that failed to load
IntoDropping ==
    /\ steps < MaxOps
    /\ LET r == IntoResult(options, files, instances)
       IN  /\ listeners' = IF r.raised = NoError
                           THEN Register(listeners, r.fns)
                           ELSE listeners
           /\ instances' = r.instances
           /\ logged' = r.logged
           /\ raised' = r.raised
           /\ files' = IF r.raised.kind = "FailedToRequire"
                       THEN SelectSeq(files, LAMBDA f : f # r.raised.file)
                       ELSE files
    /\ calls' = <<>>
    /\ last' = [op |-> "into", arg |-> <<>>]
    /\ steps' = steps + 1
    /\ UNCHANGED <<options, routes, extraArguments>>

Into ==
    /\ steps < MaxOps
    /\ LET r == IntoResult(options, files, instances)
       IN  /\ listeners' = IF r.raised = NoError
                           THEN Register(listeners, r.fns)
                           ELSE listeners
           /\ instances' = r.instances
           /\ logged' = r.logged
           /\ raised' = r.raised
    /\ calls' = <<>>
    /\ last' = [op |-> "into", arg |-> <<>>]
    /\ steps' = steps + 1
    /\ UNCHANGED <<options, routes, files, extraArguments>>

Connection(throwers) ==
    /\ steps < MaxOps
    /\ LET r == Emit(listeners, 1, Arguments(extraArguments), throwers,
                     [calls |-> <<>>, instances |-> instances, raised |-> NoError])
       IN  /\ calls' = r.calls
           /\ instances' = r.instances
           /\ raised' = r.raised
    /\ logged' = <<>>
    /\ last' = [op |-> "connection", arg |-> throwers]
    /\ steps' = steps + 1
    /\ UNCHANGED <<options, routes, files, extraArguments, listeners>>

Next ==
    \/ \E d \in Dirnames : When(d)
    \/ \E x \in ArgumentLists : WithExtraArgument(x)
    \/ Into
    \/ \E t \in SUBSET MayThrow : Connection(t)

Spec == Init /\ [][Next]_vars

----------------------------------------------------------------------------
(* The scan alone, over every listing of at most MaxListing entries *)

RECURSIVE ListingsOf(_)
\* the listings of at most n entries: a directory holds a name once
ListingsOf(n) ==
    IF n = 0 THEN {<<>>}
    ELSE LET shorter == ListingsOf(n - 1)
         IN  shorter \cup
             UNION {{Append(l, e) : e \in {x \in Names : \A i \in 1..Len(l) : l[i] # x}} :
                       l \in {s \in shorter : Len(s) = n - 1}}

ScanDirnames == {"routes", "missing", "index.js"}

ScanInit ==
    /\ routes \in ListingsOf(MaxListing)
    /\ Constructed

ScanNext == \E d \in ScanDirnames : When(d)

ScanSpec == ScanInit /\ [][ScanNext]_vars

----------------------------------------------------------------------------
(* Vocabulary of the properties *)

Range(seq) == {seq[i] : i \in 1..Len(seq)}

\* the last operation was x
Did(x) == last.op = x

\* the names of the functions called in the last event, in call order
CalledNames == [i \in 1..Len(calls) |-> calls[i].fn.name]

\* the exports of the file at position k of a file list
ExportsAt(fileList, k) == ModuleOf(fileList[k].name).exports

\* every file of the list loads and exports callable values only
AllValid(fileList) ==
    \A k \in 1..Len(fileList) :
        /\ ModuleOf(fileList[k].name).loads
        /\ \A e \in Range(ExportsAt(fileList, k)) : e.typeof = "function"

\* the positions of the files that fail to load
Failing(fileList) == {k \in 1..Len(fileList) : ~ModuleOf(fileList[k].name).loads}

\* the positions of the files that load and hold an export that is not callable
Loose(fileList) ==
    {k \in 1..Len(fileList) :
        /\ ModuleOf(fileList[k].name).loads
        /\ \E e \in Range(ExportsAt(fileList, k)) : e.typeof # "function"}

Min(S) == CHOOSE x \in S : \A y \in S : x <= y

\* the number of instances of class c among insts
InstancesOf(insts, c) == Cardinality({i \in 1..Len(insts) : insts[i].cls = c})

\* the number of exports, over a file list, that are the class named c
ExportsOfClass(fileList, c) ==
    Cardinality(UNION {{<<k, j>> : j \in {i \in 1..Len(ExportsAt(fileList, k)) :
                                      /\ ExportsAt(fileList, k)[i].body = "class"
                                      /\ ExportsAt(fileList, k)[i].name = c}} :
                       k \in 1..Len(fileList)})

\* the classes declared as `class Name {...}` whose instances expose a
\* connection method
ConnectionClasses == {"K", "M"}

----------------------------------------------------------------------------
(* C1: with the file list holding one file that exports the plain functions *)
(* a and b, no extra argument, and one listener bound to it, a connection   *)
(* event (in which neither throws) calls a then b, once each, with          *)
(* (server, connection) only.                                               *)

C1_Case ==
    /\ Did("connection")
    /\ last.arg = {}
    /\ files = << Join("routes", a_js) >>
    /\ extraArguments = <<>>
    /\ Len(listeners) = 1
    /\ listeners[1].fns # <<>>

C1_OneCallPerExport ==
    C1_Case =>
        /\ CalledNames = <<"a", "b">>
        /\ \A i \in 1..Len(calls) : calls[i].args = <<"server", "socket">>

----------------------------------------------------------------------------
(* C2: for a file exporting a class with a connection method, one into     *)
(* creates exactly one instance of the class per such export, and every    *)
(* later connection event (in which no function of the user throws) calls  *)
(* the connection method bound to that instance, which sees the state its  *)
(* earlier calls wrote.                                                    *)

C2_OneInstancePerInto ==
    (Did("into")' /\ raised' = NoError) =>
        \A c \in ConnectionClasses :
            InstancesOf(instances', c) - InstancesOf(instances, c)
                = ExportsOfClass(files, c)

C2_EveryEventCallsBound ==
    (Did("connection") /\ last.arg = {}) =>
        \A l \in 1..Len(listeners) : \A k \in 1..Len(listeners[l].fns) :
            listeners[l].fns[k].name \in ConnectionClasses =>
                \E i \in 1..Len(calls) :
                    /\ calls[i].listener = l
                    /\ calls[i].fn.body = "bound"
                    /\ calls[i].fn.name = listeners[l].fns[k].name
                    /\ instances[calls[i].fn.inst].state > calls[i].seen

C2_SingleInstanceReuse ==
    /\ [][C2_OneInstancePerInto]_vars
    /\ []C2_EveryEventCallsBound

----------------------------------------------------------------------------
(* C3: with a file exporting a class without a connection method (and      *)
(* nothing invalid) into does not raise, logs an error and registers the   *)
(* listener; a connection event never calls that export as a function.     *)

NoConnectionClassAt(fileList) ==
    {k \in 1..Len(fileList) :
        \E e \in Range(ExportsAt(fileList, k)) : e.body = "class" /\ ~e.conn}

C3_IntoSucceeds ==
    (Did("into") /\ AllValid(files) /\ NoConnectionClassAt(files) # {}) =>
        /\ raised = NoError
        /\ Len(listeners) >= 1
        /\ options.verbose =>
               \E i \in 1..Len(logged) :
                   logged[i] = [type |-> "error", message |-> <<"cannot load route">>]

C3_NeverCalled ==
    Did("connection") =>
        \A i \in 1..Len(calls) : ~(calls[i].fn.body = "class" /\ ~calls[i].fn.conn)

C3_ClassWithoutConnection == C3_IntoSucceeds /\ C3_NeverCalled

----------------------------------------------------------------------------
(* C4: as claimed: if any file of the list fails to load, into raises an   *)
(* error that identifies a failing file's path and registers no listener,  *)
(* wherever the failing file sits.                                         *)

C4_AnyFailingFileIsNamed ==
    [][(Did("into")' /\ Failing(files) # {}) =>
          /\ raised'.kind = "FailedToRequire"
          /\ \E k \in Failing(files) : raised'.file = files[k]
          /\ listeners' = listeners]_vars

(* C4, amended: if any file of the list fails to load, into raises and     *)
(* registers no listener (so nothing of that call is retained); the error  *)
(* identifies the first failing file's path unless a file before it holds  *)
(* an export that is not callable, which aborts the call first with an     *)
(* error that names no file.                                               *)

C4_LoadFailureAborts ==
    [][(Did("into")' /\ Failing(files) # {}) =>
          /\ raised' # NoError
          /\ listeners' = listeners
          /\ (\A k \in Loose(files) : k > Min(Failing(files))) =>
                 raised' = LoadError(files[Min(Failing(files))])
          /\ (\E k \in Loose(files) : k < Min(Failing(files))) =>
                 raised' = NotFunctionError]_vars

\* into raised on a file that fails to load after normalising an earlier file
C4_Witness ==
    /\ Did("into")
    /\ raised.kind = "FailedToRequire"
    /\ Len(files) >= 2
    /\ raised.file = files[2]
    /\ ExportsAt(files, 1) # <<>>
    /\ listeners = <<>>

----------------------------------------------------------------------------
(* C5: if any export of any discovered file is not callable, into raises   *)
(* and registers no listener, whatever precedes the export; no listener    *)
(* ever holds a value that is not callable.                                *)

C5_NonCallableAborts ==
    /\ [][(Did("into")' /\ Loose(files) # {}) =>
             /\ raised' # NoError
             /\ listeners' = listeners]_vars
    /\ [](\A l \in 1..Len(listeners) :
             \A h \in Range(listeners[l].fns) : h.typeof = "function")

\* into raised on an export that is not callable, after a callable export of
\* the same file and after an earlier file
C5_Witness ==
    /\ Did("into")
    /\ raised = NotFunctionError
    /\ Len(files) >= 2
    /\ Loose(files) = {Len(files)}
    /\ listeners = <<>>

----------------------------------------------------------------------------
(* C6: one when call on an existing directory appends exactly the entries  *)
(* whose extension (what follows the last '.') is accepted and whose name  *)
(* does not start with '.', in listing order; nothing else is ever in the  *)
(* list.                                                                   *)

Max(S) == CHOOSE x \in S : \A y \in S : x >= y

\* what follows the last '.' of a name (the name itself when it has none)
AfterLastDot(name) ==
    LET dotsAt == {i \in 1..Len(name) : name[i] = "."}
    IN  IF dotsAt = {} THEN name ELSE SubSeq(name, Max(dotsAt) + 1, Len(name))

AcceptedName(name) ==
    /\ Includes(options.extensions, AfterLastDot(name))
    /\ name[1] # "."

\* the paths of the accepted entries of a directory, in listing order
AcceptedPaths(dirname) ==
    LET kept == SelectSeq(Tree(routes)[dirname].listing, AcceptedName)
    IN  [i \in 1..Len(kept) |-> Join(dirname, kept[i])]

C6_ScanAppendsAccepted ==
    /\ [][(Did("when")' /\ Tree(routes)[last'.arg].kind = "dir") =>
             files' = files \o AcceptedPaths(last'.arg)]_vars
    /\ [](\A f \in Range(files) : AcceptedName(f.name))

----------------------------------------------------------------------------
(* C7: when on a location that is missing or is no directory does not      *)
(* raise and leaves the file list unchanged; an into on a list of valid    *)
(* files succeeds and its listener holds handlers of exactly the exports   *)
(* of those files.                                                         *)

\* the names of the exports of the files of a list
ExportNames(fileList) ==
    UNION {{e.name : e \in Range(ExportsAt(fileList, k))} : k \in 1..Len(fileList)}

----------------------------------------------------------------------------
(* C8: withExtraArgument appends its arguments, in order, to the Extra     *)
(* Argument List, nothing else changes the list, and every handler call of *)
(* a connection event receives server, connection and then that list.      *)

C8_ExtraArguments ==
    /\ [][extraArguments' = IF Did("withExtraArgument")'
                            THEN extraArguments \o last'.arg
                            ELSE extraArguments]_vars
    /\ [](\A i \in 1..Len(calls) :
             calls[i].args = <<"server", "socket">> \o extraArguments)

\* accumulating (1, 2) then (3), then an event that calls a handler
C8_Witness ==
    /\ Did("connection")
    /\ extraArguments = <<1, 2, 3>>
    /\ calls # <<>>

----------------------------------------------------------------------------
(* C9 *)

\* the handler positions of the registered listeners
Slots ==
    UNION {{<<l, k>> : k \in 1..Len(listeners[l].fns)} : l \in 1..Len(listeners)}

Before(s, t) == s[1] < t[1] \/ (s[1] = t[1] /\ s[2] < t[2])

\* the handler position of the i-th call of the last event
CallSlot(i) == <<calls[i].listener, calls[i].pos>>

\* each successful into adds one listener at the end, and nothing else
\* changes the listeners
C9_Registration ==
    /\ SubSeq(listeners', 1, Len(listeners)) = listeners
    /\ Len(listeners') = Len(listeners)
                         + (IF Did("into")' /\ raised' = NoError THEN 1 ELSE 0)

\* no listener holds a class constructor in its handler list
OnlyHandlers ==
    \A l \in 1..Len(listeners) : \A h \in Range(listeners[l].fns) : h.body # "class"

(* C9, as claimed: each successful into registers exactly one listener,    *)
(* none is ever removed, and one connection event runs the handlers of     *)
(* every registered listener (stated for listeners whose lists hold        *)
(* handlers only).                                                         *)
C9_EveryListenerRuns ==
    /\ [][C9_Registration]_vars
    /\ []((Did("connection") /\ OnlyHandlers) =>
             \A s \in Slots : \E i \in 1..Len(calls) : CallSlot(i) = s)

(* C9, amended: each successful into registers exactly one listener, none  *)
(* is ever removed, and one connection event runs the handlers of the      *)
(* listeners in registration order up to the first handler that throws:    *)
(* all of them when none throws.                                           *)
C9_ListenersAccumulate ==
    /\ [][C9_Registration]_vars
    /\ [](Did("connection") =>
             /\ \A i \in 1..Len(calls) :
                    /\ CallSlot(i) \in Slots
                    /\ Cardinality({s \in Slots : Before(s, CallSlot(i))}) = i - 1
             /\ raised = NoError => Len(calls) = Cardinality(Slots)
             /\ raised # NoError => calls # <<>> /\ calls[Len(calls)].threw)

\* one event ran the handlers of two listeners
C9_Witness ==
    /\ Did("connection")
    /\ Len(listeners) = 2
    /\ raised = NoError
    /\ \E i \in 1..Len(calls) : calls[i].listener = 1
    /\ \E i \in 1..Len(calls) : calls[i].listener = 2

----------------------------------------------------------------------------
(* C10: within one connection event a listener calls its handlers one at a *)
(* time in list order, starting from the first; a handler that throws is   *)
(* the last call of the event and its exception leaves the listener, the   *)
(* handlers before it having run.                                          *)

C10_FailFastDispatch ==
    Did("connection") =>
        /\ \A i \in 1..Len(calls) :
               /\ calls[i].fn = listeners[calls[i].listener].fns[calls[i].pos]
               /\ calls[i].threw => i = Len(calls)
               /\ (calls[i].fn.body = "plain" /\ calls[i].fn.name \in last.arg)
                      => calls[i].threw
               /\ i = 1 \/ calls[i].listener # calls[i - 1].listener
                      => calls[i].pos = 1
               /\ (i > 1 /\ calls[i].listener = calls[i - 1].listener)
                      => calls[i].pos = calls[i - 1].pos + 1
        /\ raised # NoError <=> (calls # <<>> /\ calls[Len(calls)].threw)
        /\ (calls # <<>> /\ raised = NoError) =>
               calls[Len(calls)].pos = Len(listeners[calls[Len(calls)].listener].fns)

\* a handler threw after earlier handlers ran and before later ones
C10_Witness ==
    /\ Did("connection")
    /\ raised = HandlerError
    /\ Len(calls) > 1
    /\ Len(calls) < Len(listeners[1].fns)

----------------------------------------------------------------------------
(* C11: the Handler List an into captures follows file discovery order:    *)
(* of two handlers of one listener, the one that comes first in the list,  *)
(* and so is called first in a connection event, derives from a file that  *)
(* is not after the file of the other in the Discovered File List.         *)

\* the positions of the files of the list that export a value named so
FilesExporting(name) ==
    {k \in 1..Len(files) : \E e \in Range(ExportsAt(files, k)) : e.name = name}

\* some file exporting x is not after some file exporting y
NotAfter(x, y) ==
    \E p \in FilesExporting(x) : \E q \in FilesExporting(y) : p <= q

C11_FileOrder ==
    /\ (Did("into") /\ raised = NoError) =>
           LET fns == listeners[Len(listeners)].fns
           IN  \A i \in 1..Len(fns) : \A j \in i..Len(fns) :
                   NotAfter(fns[i].name, fns[j].name)
    /\ Did("connection") =>
           \A i \in 1..Len(calls) : \A j \in i..Len(calls) :
               calls[i].listener = calls[j].listener =>
                   NotAfter(calls[i].fn.name, calls[j].fn.name)

\* one event called handlers of two files of one list, those of the first
\* file first
C11_Witness ==
    /\ Did("connection")
    /\ Len(files) = 2
    /\ files[1] = Join("routes", a_js)
    /\ files[2] = Join("stateful", k_js)
    /\ \E i \in 1..Len(calls) : \E j \in (i + 1)..Len(calls) :
           /\ calls[i].fn.name = "b"
           /\ calls[j].fn.name = "K"
           /\ calls[j].fn.body = "bound"

----------------------------------------------------------------------------
Loud  == [options EXCEPT !.verbose = TRUE]

\* the options with the verbosity flag the other way round
Flipped == [options EXCEPT !.verbose = ~@]

\* what a when or an into step did is what it does with the flag flipped
C12_Step ==
    /\ Did("when")' =>
           LET r == WhenResult(Flipped, Tree(routes), files, last'.arg)
           IN  /\ r.files = files'
               /\ r.raised = raised'
    /\ Did("into")' =>
           LET r == IntoResult(Flipped, files, instances)
           IN  /\ r.instances = instances'
               /\ r.raised = raised'
               /\ r.raised = NoError =>
                      listeners' = Append(listeners, [fns |-> r.fns])
               /\ r.raised # NoError => listeners' = listeners
    /\ (Did("withExtraArgument")' \/ Did("connection")') => logged' = <<>>

(* C12: with verbose disabled no operation calls the logger, and the       *)
(* verbosity flag changes nothing but the logger calls: what when and into *)
(* do to the file list, the instances, the handler list and the error      *)
(* raised is the same with the flag on and off.                            *)
C12_VerboseOnlyLogs ==
    /\ [](~options.verbose => logged = <<>>)
    /\ [][C12_Step]_vars

\* a soft failure of into (a class without connection) with verbose disabled
C12_Witness ==
    /\ ~options.verbose
    /\ Did("into")
    /\ raised = NoError
    /\ NoConnectionClassAt(files) # {}
    /\ IntoResult(Loud, files, <<>>).logged # <<>>

----------------------------------------------------------------------------
(* C13: every error into raises (a module that fails to load, an export    *)
(* that is not callable) names the failing file.                           *)

C13_ErrorsNameTheFile ==
    (Did("into") /\ raised # NoError) =>
        /\ raised.file # NoFile
        /\ raised.file \in Range(files)

----------------------------------------------------------------------------
(* C14: the Handler List of a registered listener is fixed at its into: no *)
(* later operation, a when in particular, changes it, and the listener     *)
(* calls handlers of that list only, whatever files were added since.      *)

C14_ListenerKeepsItsList ==
    /\ [][\A l \in 1..Len(listeners) :
             /\ l <= Len(listeners')
             /\ listeners'[l] = listeners[l]]_vars
    /\ [](Did("connection") =>
             \A i \in 1..Len(calls) :
                 /\ calls[i].pos <= Len(listeners[calls[i].listener].fns)
                 /\ calls[i].fn = listeners[calls[i].listener].fns[calls[i].pos])

\* an event on a listener bound to routes/a.js alone, after a later scan
\* added stateful/k.js: every handler of the listener ran, no more
C14_Witness ==
    /\ Did("connection")
    /\ raised = NoError
    /\ files = << Join("routes", a_js), Join("stateful", k_js) >>
    /\ Len(listeners) = 1
    /\ listeners[1].fns # <<>>
    /\ \A h \in Range(listeners[1].fns) : h.name \in {"a", "b"}
    /\ Len(calls) = Len(listeners[1].fns)

----------------------------------------------------------------------------
(* C15: the Discovered File List is append-only: every operation leaves   *)
(* the list it found as a prefix of the resulting list, and what a scan    *)
(* appends does not depend on what the list holds (no deduplication): a    *)
(* scan that returns appends every accepted entry of its directory, so a   *)
(* second scan of the directory lists each of them a second time.          *)

\* the number of times path p is in the list
Occurrences(fileList, p) ==
    Cardinality({k \in 1..Len(fileList) : fileList[k] = p})

C15_Scan ==
    /\ Len(files') >= Len(files)
    /\ SubSeq(files', 1, Len(files)) = files
    /\ (Did("when")' /\ Tree(routes)[last'.arg].kind = "dir" /\ raised' = NoError) =>
           /\ files' = files \o AcceptedPaths(last'.arg)
           /\ \A p \in Range(AcceptedPaths(last'.arg)) :
                  Occurrences(files', p) > Occurrences(files, p)

----------------------------------------------------------------------------
(* C16: no Handler List holds a raw class constructor of a class that      *)
(* exposes a connection method: the list of a file exporting plain         *)
(* functions and such classes holds the functions and the bound connection *)
(* methods only, and no connection event calls such a constructor.         *)

C16_OnlyNormalizedHandlers ==
    /\ \A l \in 1..Len(listeners) : \A h \in Range(listeners[l].fns) :
           h.name \in ConnectionClasses => h.body = "bound"
    /\ \A i \in 1..Len(calls) :
           calls[i].fn.name \in ConnectionClasses => calls[i].fn.body = "bound"

----------------------------------------------------------------------------
(* C17: the extra arguments a connection event passes are the Extra        *)
(* Argument List as it stands when the event fires: into leaves the list   *)
(* alone and keeps no copy of it, so what withExtraArgument accumulated    *)
(* after into reaches every handler call of the later events, in order.    *)

C17_Step ==
    /\ Did("into")' => extraArguments' = extraArguments
    /\ Did("connection")' =>
           \A i \in 1..Len(calls') :
               /\ Len(calls'[i].args) = 2 + Len(extraArguments)
               /\ SubSeq(calls'[i].args, 3, Len(calls'[i].args)) = extraArguments

C17_ArgumentsReadAtEvent == [][C17_Step]_vars

\* a listener with handlers is registered and withExtraArgument has just
\* added (3) to the list: the event fired here passes (3) to every handler
C17_Witness ==
    /\ Did("withExtraArgument")
    /\ last.arg = <<3>>
    /\ extraArguments = <<3>>
    /\ Len(listeners) = 1
    /\ LET r == Emit(listeners, 1, Arguments(extraArguments), {},
                     [calls |-> <<>>, instances |-> instances, raised |-> NoError])
       IN  /\ r.calls # <<>>
           /\ \A i \in 1..Len(r.calls) : r.calls[i].args = <<"server", "socket", 3>>

----------------------------------------------------------------------------
(* C18: into never modifies the Discovered File List or the Extra Argument *)
(* List, whether it returns or raises; once into raises on the list, it    *)
(* raises the same error after any further operation, since no operation   *)
(* removes a file.                                                         *)

C18_Step ==
    LET e == IntoResult(options, files, instances).raised
    IN  /\ Did("into")' =>
               /\ files' = files
               /\ extraArguments' = extraArguments
        /\ e # NoError =>
               /\ IntoResult(options, files', instances').raised = e
               /\ Did("into")' => raised' = e /\ listeners' = listeners

C18_IntoLeavesTheLists == [][C18_Step]_vars

\* two into calls raised on broken/x.js: each made an instance of K on its
\* way to the file, and no listener was registered
C18_Witness ==
    /\ Did("into")
    /\ raised = LoadError(Join("broken", x_js))
    /\ files = << Join("stateful", k_js), Join("broken", x_js) >>
    /\ Len(instances) = 2
    /\ listeners = <<>>

----------------------------------------------------------------------------
(* C19: when on an existing directory never raises, whatever the names of  *)
(* its entries: every entry is skipped or appended.                        *)

C19_WhenNeverRaises ==
    Did("when") =>
        /\ raised = NoError
        /\ Tree(routes)[last.arg].kind = "dir" =>
               \A n \in Range(Tree(routes)[last.arg].listing) :
                   AcceptedName(n) => Join(last.arg, n) \in Range(files)

====
